---------------------------- MODULE Spec2Model ----------------------------
(***************************************************************************)
(* A model of the recipe cost calculator worker (src/src/index.ts): the    *)
(* validation functions, the cost engine, the repository functions over    *)
(* the three store tables and the fetch handler that routes requests.      *)
(*                                                                         *)
(* JavaScript values are tagged records of one shape, so that any two can  *)
(* be compared.  Numbers are exact rationals n/d in lowest terms, with     *)
(* NaN and the two infinities beside them; IEEE rounding and the sign of   *)
(* zero are not modelled.                                                  *)
(***************************************************************************)
EXTENDS Integers, Sequences, FiniteSets, TLC

VARIABLES
    recipes,        \* table recipes: the rows, in rowid order
    recipe_parts,   \* table recipe_parts: the rows, in rowid order
    recipe_labor,   \* table recipe_labor: the rows, in rowid order
    clock,          \* what new Date() returns
    req,            \* the request fetch handled last
    resp,           \* what fetch answered to it
    pre,            \* the three tables as they were before that request
    trace,          \* what that request did: limiter call, body parse, statements
    mutations,      \* the requests so far that changed the store
    inflight        \* the updates that run at once, statement by statement

vars == <<recipes, recipe_parts, recipe_labor, clock, req, resp, pre, trace, mutations, inflight>>

-----------------------------------------------------------------------------
(* Bounds of the model *)

NumIds == 1         \* ids generateUUID can return
MaxClock == 1       \* the clock runs from 0 to MaxClock
MaxFail == 3        \* a store failure is injected at statement 1..MaxFail of a request
MaxMutations == 2   \* requests of one behaviour that change the store
MaxItems == 2       \* longest parts list of a recipe of the cost specification
MaxStored == 2      \* most recipes in a store of the cost and updates specifications
NumWriters == 2     \* updates that run at once in the updates specification

-----------------------------------------------------------------------------
(* JavaScript values *)

Num(n, d) == [t |-> "num", n |-> n, d |-> d, s |-> ""]
Whole(n) == Num(n, 1)
Str(x) == [t |-> "str", n |-> 0, d |-> 1, s |-> x]
Null == [t |-> "null", n |-> 0, d |-> 1, s |-> ""]
Undefined == [t |-> "undefined", n |-> 0, d |-> 1, s |-> ""]
NaN == [t |-> "nan", n |-> 0, d |-> 1, s |-> ""]
Infinity(sg) == [t |-> "inf", n |-> sg, d |-> 1, s |-> ""]

Abs(x) == IF x < 0 THEN -x ELSE x
Sign(x) == IF x < 0 THEN -1 ELSE IF x > 0 THEN 1 ELSE 0

RECURSIVE GCD(_, _)
GCD(a, b) == IF b = 0 THEN a ELSE GCD(b, a % b)

\* the rational n/d (d # 0) in lowest terms with a positive denominator
Rat(n, d) ==
    LET g == GCD(Abs(n), Abs(d))
    IN  Num(Sign(d) * (n \div g), Abs(d) \div g)

\* typeof v === 'number'
IsNumber(v) == v.t \in {"num", "nan", "inf"}

\* !!v
Truthy(v) ==
    CASE v.t = "num" -> v.n # 0
      [] v.t = "str" -> v.s # ""
      [] v.t = "inf" -> TRUE
      [] OTHER -> FALSE

\* a || b
JsOr(a, b) == IF Truthy(a) THEN a ELSE b

\* the number an arithmetic operator makes of its operand; the strings of the
\* model are not numeric, bar the empty one
ToNumber(v) ==
    CASE IsNumber(v) -> v
      [] v.t = "null" -> Whole(0)
      [] v.t = "str" -> IF v.s = "" THEN Whole(0) ELSE NaN
      [] OTHER -> NaN

Neg(a) ==
    CASE a.t = "num" -> Num(-a.n, a.d)
      [] a.t = "inf" -> Infinity(-a.n)
      [] OTHER -> NaN

\* a + b on numbers
NumAdd(a, b) ==
    CASE a.t = "nan" \/ b.t = "nan" -> NaN
      [] a.t = "inf" /\ b.t = "inf" -> IF a.n = b.n THEN a ELSE NaN
      [] a.t = "inf" -> a
      [] b.t = "inf" -> b
      [] OTHER -> Rat(a.n * b.d + b.n * a.d, a.d * b.d)

\* a * b on numbers
NumMul(a, b) ==
    CASE a.t = "nan" \/ b.t = "nan" -> NaN
      [] a.t = "inf" /\ b.t = "inf" -> Infinity(a.n * b.n)
      [] a.t = "inf" -> IF b.n = 0 THEN NaN ELSE Infinity(a.n * Sign(b.n))
      [] b.t = "inf" -> IF a.n = 0 THEN NaN ELSE Infinity(b.n * Sign(a.n))
      [] OTHER -> Rat(a.n * b.n, a.d * b.d)

\* a / b on numbers
NumDiv(a, b) ==
    CASE a.t = "nan" \/ b.t = "nan" -> NaN
      [] a.t = "inf" /\ b.t = "inf" -> NaN
      [] a.t = "inf" -> Infinity(IF b.n < 0 THEN -a.n ELSE a.n)
      [] b.t = "inf" -> Whole(0)
      [] b.n = 0 -> IF a.n = 0 THEN NaN ELSE Infinity(Sign(a.n))
      [] OTHER -> Rat(a.n * b.d, a.d * b.n)

JsAdd(a, b) == NumAdd(ToNumber(a), ToNumber(b))
JsSub(a, b) == NumAdd(ToNumber(a), Neg(ToNumber(b)))
JsMul(a, b) == NumMul(ToNumber(a), ToNumber(b))
JsDiv(a, b) == NumDiv(ToNumber(a), ToNumber(b))

\* a < b and a >= b on a number a and an integer literal b (false on NaN)
JsLt(a, k) ==
    CASE a.t = "num" -> a.n < k * a.d
      [] a.t = "inf" -> a.n < 0
      [] OTHER -> FALSE
JsGe(a, k) ==
    CASE a.t = "num" -> a.n >= k * a.d
      [] a.t = "inf" -> a.n > 0
      [] OTHER -> FALSE
JsGt(a, k) ==
    CASE a.t = "num" -> a.n > k * a.d
      [] a.t = "inf" -> a.n > 0
      [] OTHER -> FALSE

-----------------------------------------------------------------------------
(* JSON payloads.  An object that may be something else carries its kind in *)
(* t: a dimensions value is an object, null or a string; a parts or labor   *)
(* value is an array or null; an element of either is an object or null; a  *)
(* request body is an object (f: its own fields), null, or not JSON at all. *)

Dims(l, w, h, u) == [t |-> "obj", length |-> l, width |-> w, height |-> h, unit |-> u]
NullDims == [t |-> "null", length |-> Undefined, width |-> Undefined,
             height |-> Undefined, unit |-> Undefined]
StrDims == [t |-> "str", length |-> Whole(3), width |-> Undefined,
            height |-> Undefined, unit |-> Undefined]

Part(nm, q, c) == [t |-> "obj", name |-> nm, quantity |-> q, cost_per_unit |-> c]
NullPart == [t |-> "null", name |-> Undefined, quantity |-> Undefined,
             cost_per_unit |-> Undefined]
Labor(ty, c, h) == [t |-> "obj", type |-> ty, cost_per_hour |-> c, hours_needed |-> h]

Arr(items) == [t |-> "arr", items |-> items]
NullArr == [t |-> "null", items |-> <<>>]

Obj(f) == [t |-> "obj", f |-> f]
NullBody == [t |-> "null", f |-> <<>>]
BadJson == [t |-> "bad", f |-> <<>>]

\* field in recipe, and recipe.field (undefined when the object has no such field)
Has(recipe, field) == field \in DOMAIN recipe.f

\* new Date().toISOString() at instant c: a non-empty string, one per instant
ISO(c) == [t |-> "str", n |-> c, d |-> 1, s |-> "iso"]

\* the strings generateUUID returns
Uuid(i) == [t |-> "str", n |-> i, d |-> 1, s |-> "uuid"]
Ids == {Uuid(i) : i \in 1..NumIds}

-----------------------------------------------------------------------------
(* Validation *)

Valid == [valid |-> TRUE, message |-> "", missing |-> <<>>, thrown |-> FALSE]
Invalid(msg) == [valid |-> FALSE, message |-> msg, missing |-> <<>>, thrown |-> FALSE]
\* a TypeError raised inside a validation function
ValidationThrows == [valid |-> FALSE, message |-> "TypeError", missing |-> <<>>,
                     thrown |-> TRUE]

requiredFields == <<"name", "weight", "dimensions", "yield_percentage", "waste_factor",
                    "unit_of_measure", "inventory_location", "parts", "labor">>

DimsMessage == "Invalid dimensions object. Must include length, width, height, and unit"
PartsMessage == "Invalid parts array. Each part must have name, quantity, and cost_per_unit"
LaborMessage ==
    "Invalid labor array. Each labor item must have type, cost_per_hour, and hours_needed"

\* !dims: an object and a non-empty string are truthy, null is not
DimsFalsy(dims) == dims.t = "null"

\* typeof dims !== 'object' || !dims.length || !dims.width || !dims.height || !dims.unit
\* (typeof null is 'object', and reading a field of null is never reached: both
\* callers test !dims first)
DimsShapeBad(dims) ==
    \/ dims.t = "str"
    \/ ~Truthy(dims.length) \/ ~Truthy(dims.width)
    \/ ~Truthy(dims.height) \/ ~Truthy(dims.unit)

\* part => !part.name || part.quantity === undefined || part.cost_per_unit === undefined
PartBad(part) ==
    ~Truthy(part.name) \/ part.quantity = Undefined \/ part.cost_per_unit = Undefined

\* labor => !labor.type || labor.cost_per_hour === undefined || labor.hours_needed === undefined
LaborBad(labor) ==
    ~Truthy(labor.type) \/ labor.cost_per_hour = Undefined \/ labor.hours_needed = Undefined

\* items.some(bad): "true", "false", or "throws" when the callback reads a field
\* of a null element before any element made it return true
RECURSIVE SomePart(_)
SomePart(items) ==
    IF items = <<>> THEN "false"
    ELSE IF Head(items).t = "null" THEN "throws"
    ELSE IF PartBad(Head(items)) THEN "true"
    ELSE SomePart(Tail(items))

RECURSIVE SomeLabor(_)
SomeLabor(items) ==
    IF items = <<>> THEN "false"
    ELSE IF Head(items).t = "null" THEN "throws"
    ELSE IF LaborBad(Head(items)) THEN "true"
    ELSE SomeLabor(Tail(items))

\* !Array.isArray(parts) || parts.some(...): "true", "false" or "throws"
PartsCheck(parts) == IF parts.t # "arr" THEN "true" ELSE SomePart(parts.items)
LaborCheck(labor) == IF labor.t # "arr" THEN "true" ELSE SomeLabor(labor.items)

validateRecipe(recipe) ==
    IF recipe.t # "obj" THEN ValidationThrows      \* 'name' in null
    ELSE LET missingFields == SelectSeq(requiredFields, LAMBDA field : ~Has(recipe, field))
             dims == recipe.f.dimensions
         IN  IF Len(missingFields) > 0
             THEN [valid |-> FALSE, message |-> "Missing required fields",
                   missing |-> missingFields, thrown |-> FALSE]
             ELSE IF DimsFalsy(dims) \/ DimsShapeBad(dims) THEN Invalid(DimsMessage)
             ELSE IF PartsCheck(recipe.f.parts) = "throws" THEN ValidationThrows
             ELSE IF PartsCheck(recipe.f.parts) = "true" THEN Invalid(PartsMessage)
             ELSE IF LaborCheck(recipe.f.labor) = "throws" THEN ValidationThrows
             ELSE IF LaborCheck(recipe.f.labor) = "true" THEN Invalid(LaborMessage)
             ELSE Valid

validatePartialRecipe(recipe) ==
    IF recipe.t # "obj" THEN ValidationThrows      \* null.dimensions
    ELSE IF /\ Has(recipe, "dimensions")
            /\ ~DimsFalsy(recipe.f.dimensions)
            /\ DimsShapeBad(recipe.f.dimensions)
         THEN Invalid(DimsMessage)
    ELSE IF Has(recipe, "parts") /\ PartsCheck(recipe.f.parts) = "throws"
         THEN ValidationThrows
    ELSE IF Has(recipe, "parts") /\ PartsCheck(recipe.f.parts) = "true"
         THEN Invalid(PartsMessage)
    ELSE IF Has(recipe, "labor") /\ LaborCheck(recipe.f.labor) = "throws"
         THEN ValidationThrows
    ELSE IF Has(recipe, "labor") /\ LaborCheck(recipe.f.labor) = "true"
         THEN Invalid(LaborMessage)
    ELSE IF /\ Has(recipe, "weight")
            /\ (~IsNumber(recipe.f.weight) \/ JsLt(recipe.f.weight, 0))
         THEN Invalid("Weight must be a positive number")
    ELSE IF /\ Has(recipe, "yield_percentage")
            /\ \/ ~IsNumber(recipe.f.yield_percentage)
               \/ JsLt(recipe.f.yield_percentage, 0)
               \/ JsGt(recipe.f.yield_percentage, 100)
         THEN Invalid("Yield percentage must be a number between 0 and 100")
    ELSE IF /\ Has(recipe, "waste_factor")
            /\ \/ ~IsNumber(recipe.f.waste_factor)
               \/ JsLt(recipe.f.waste_factor, 0)
               \/ JsGe(recipe.f.waste_factor, 1)
         THEN Invalid("Waste factor must be a number between 0 and 1")
    ELSE Valid

-----------------------------------------------------------------------------
(* Cost engine.  A Recipe is what getRecipeById builds: t = "obj" and the    *)
(* fields of interface Recipe, parts and labor being arrays of row objects. *)

\* parts.reduce((total, part) => total + part.quantity * part.cost_per_unit, init)
RECURSIVE ReduceParts(_, _)
ReduceParts(items, total) ==
    IF items = <<>> THEN total
    ELSE ReduceParts(Tail(items),
                     JsAdd(total, JsMul(Head(items).quantity, Head(items).cost_per_unit)))

\* labor.reduce((total, job) => total + job.hours_needed * job.cost_per_hour, init)
RECURSIVE ReduceLabor(_, _)
ReduceLabor(items, total) ==
    IF items = <<>> THEN total
    ELSE ReduceLabor(Tail(items),
                     JsAdd(total, JsMul(Head(items).hours_needed, Head(items).cost_per_hour)))

CostBreakdown(recipe, subtotal, costWithWaste) ==
    [recipe_id |-> recipe.id,
     recipe_name |-> recipe.name,
     cost_summary |-> [subtotal |-> subtotal,
                       waste_factor |-> recipe.waste_factor,
                       waste_amount |-> JsSub(costWithWaste, subtotal),
                       total |-> costWithWaste,
                       currency |-> "USD",
                       unit_of_measure |-> JsOr(recipe.unit_of_measure, Str("piece"))]]

\* the fault of a markup: subtotal * (1 + waste_factor)
CostWithWaste_markup(recipe, subtotal) ==
    CostBreakdown(recipe, subtotal,
                  JsMul(subtotal, JsAdd(Whole(1), JsOr(recipe.waste_factor, Whole(0)))))

\* const costWithWaste = subtotal / (1 - (recipe.waste_factor || 0))
CostWithWaste(recipe, subtotal) ==
    CostBreakdown(recipe, subtotal,
                  JsDiv(subtotal, JsSub(Whole(1), JsOr(recipe.waste_factor, Whole(0)))))

\* callers pass a Recipe, never null: the guard on !recipe never throws
calculateRecipeCost(recipe) ==
    CostWithWaste(recipe, JsAdd(ReduceParts(recipe.parts.items, Whole(0)),
                                ReduceLabor(recipe.labor.items, Whole(0))))

-----------------------------------------------------------------------------
(* The store: env.DB.  A statement either runs, atomically, or fails and     *)
(* changes nothing.  Which statement of a request fails, if any, is the      *)
(* input k of the repository functions: the k-th statement the request       *)
(* issues throws (k = 0: none does).                                         *)

DB == [recipes |-> recipes, recipe_parts |-> recipe_parts, recipe_labor |-> recipe_labor]

\* the child rows of a deleted recipes row go with it: both child tables are
\* foreign-keyed by recipe_id and deletion cascades (the schema is not part of
\* the source files; this is the store the specification describes)
OnDeleteCascade(rows, id) == SelectSeq(rows, LAMBDA row : row.recipe_id # id)

\* one write statement on the store
Exec(db, st) ==
    CASE st.op = "INSERT recipes" ->
            [db EXCEPT !.recipes = Append(@, st.row)]
      [] st.op = "UPDATE recipes" ->
            [db EXCEPT !.recipes =
                [i \in DOMAIN @ |->
                    IF @[i].id = st.id
                    THEN [st.row EXCEPT !.id = db.recipes[i].id,
                                        !.created_at = db.recipes[i].created_at]
                    ELSE @[i]]]
      [] st.op = "DELETE recipes" ->
            [recipes |-> SelectSeq(db.recipes, LAMBDA row : row.id # st.id),
             recipe_parts |-> OnDeleteCascade(db.recipe_parts, st.id),
             recipe_labor |-> OnDeleteCascade(db.recipe_labor, st.id)]
      [] st.op = "INSERT recipe_parts" ->
            [db EXCEPT !.recipe_parts = Append(@, st.row)]
      [] st.op = "DELETE recipe_parts" ->
            [db EXCEPT !.recipe_parts = SelectSeq(@, LAMBDA row : row.recipe_id # st.id)]
      [] st.op = "INSERT recipe_labor" ->
            [db EXCEPT !.recipe_labor = Append(@, st.row)]
      [] st.op = "DELETE recipe_labor" ->
            [db EXCEPT !.recipe_labor = SelectSeq(@, LAMBDA row : row.recipe_id # st.id)]

\* the first n statements of sts, in order
RECURSIVE ExecAll(_, _, _)
ExecAll(db, sts, n) ==
    IF n = 0 \/ sts = <<>> THEN db ELSE ExecAll(Exec(db, Head(sts)), Tail(sts), n - 1)

\* the statements sts run in order with the k-th of them failing: the store
\* after, whether the failure was raised, and the statements issued
Run(db, sts, k) ==
    LET thrown == k \in 1..Len(sts)
    IN  [db |-> ExecAll(db, sts, IF thrown THEN k - 1 ELSE Len(sts)),
         thrown |-> thrown,
         n |-> IF thrown THEN k ELSE Len(sts)]

\* the failing statement's number among those that follow the first n
After(k, n) == IF k > n THEN k - n ELSE 0

\* SELECT * FROM recipes WHERE id = ? ... first()
RowsOf(db, id) == SelectSeq(db.recipes, LAMBDA row : row.id = id)

\* SELECT name, quantity, cost_per_unit FROM recipe_parts WHERE recipe_id = ? ... all()
PartsOf(db, id) ==
    LET rows == SelectSeq(db.recipe_parts, LAMBDA row : row.recipe_id = id)
    IN  [i \in DOMAIN rows |-> Part(rows[i].name, rows[i].quantity, rows[i].cost_per_unit)]

\* SELECT type, cost_per_hour, hours_needed FROM recipe_labor WHERE recipe_id = ? ... all()
LaborOf(db, id) ==
    LET rows == SelectSeq(db.recipe_labor, LAMBDA row : row.recipe_id = id)
    IN  [i \in DOMAIN rows |->
            Labor(rows[i].type, rows[i].cost_per_hour, rows[i].hours_needed)]

NoRecipe == [t |-> "null"]

\* the Recipe both getRecipeById and getAllRecipes build of a recipes row
RecipeOfRow(db, row) ==
    [t |-> "obj",
     id |-> row.id,
     name |-> JsOr(row.name, Str("")),
     weight |-> JsOr(row.weight, Whole(0)),
     dimensions |-> Dims(JsOr(row.length_unit, Whole(0)), JsOr(row.width, Whole(0)),
                         JsOr(row.height, Whole(0)), JsOr(row.dimension_unit, Str(""))),
     yield_percentage |-> JsOr(row.yield_percentage, Whole(0)),
     waste_factor |-> JsOr(row.waste_factor, Whole(0)),
     unit_of_measure |-> JsOr(row.unit_of_measure, Str("")),
     inventory_location |-> JsOr(row.inventory_location, Str("")),
     parts |-> Arr(PartsOf(db, row.id)),
     labor |-> Arr(LaborOf(db, row.id)),
     created_at |-> JsOr(row.created_at, Str("")),
     updated_at |-> JsOr(row.updated_at, Str(""))]

\* value: the Recipe or NoRecipe; thrown: a statement failed; n: statements issued
getRecipeById(id, db, k) ==
    LET rows == RowsOf(db, id)
    IN  IF k = 1 THEN [value |-> NoRecipe, thrown |-> TRUE, n |-> 1]
        ELSE IF rows = <<>> THEN [value |-> NoRecipe, thrown |-> FALSE, n |-> 1]
        ELSE IF k \in {2, 3} THEN [value |-> NoRecipe, thrown |-> TRUE, n |-> k]
        ELSE [value |-> RecipeOfRow(db, rows[1]), thrown |-> FALSE, n |-> 3]

\* the orders SELECT * FROM recipes ORDER BY created_at DESC may return the rows
\* in: newest first, rows of one instant in any order
Orderings(db) ==
    LET n == Len(db.recipes)
    IN  {o \in [1..n -> 1..n] :
            /\ \A i, j \in 1..n : i # j => o[i] # o[j]
            /\ \A i, j \in 1..n :
                  i < j => db.recipes[o[i]].created_at.n >= db.recipes[o[j]].created_at.n}

\* value: the Recipes in the order the store returned the rows
getAllRecipes(db, order, k) ==
    LET total == 1 + 2 * Len(db.recipes)
    IN  IF k \in 1..total
        THEN [value |-> <<>>, thrown |-> TRUE, n |-> k]
        ELSE [value |-> [i \in 1..Len(db.recipes) |-> RecipeOfRow(db, db.recipes[order[i]])],
              thrown |-> FALSE, n |-> total]

PartInserts(id, items) ==
    [i \in DOMAIN items |->
        [op |-> "INSERT recipe_parts",
         row |-> [recipe_id |-> id, name |-> items[i].name, quantity |-> items[i].quantity,
                  cost_per_unit |-> items[i].cost_per_unit]]]

LaborInserts(id, items) ==
    [i \in DOMAIN items |->
        [op |-> "INSERT recipe_labor",
         row |-> [recipe_id |-> id, type |-> items[i].type,
                  cost_per_hour |-> items[i].cost_per_hour,
                  hours_needed |-> items[i].hours_needed]]]

\* the row the INSERT and the UPDATE on recipes bind
RecipesRow(id, r, created, updated) ==
    [id |-> id,
     name |-> r.name,
     weight |-> r.weight,
     length_unit |-> r.dimensions.length,
     width |-> r.dimensions.width,
     height |-> r.dimensions.height,
     dimension_unit |-> r.dimensions.unit,
     yield_percentage |-> r.yield_percentage,
     waste_factor |-> r.waste_factor,
     unit_of_measure |-> r.unit_of_measure,
     inventory_location |-> r.inventory_location,
     created_at |-> created,
     updated_at |-> updated]

\* the statements createRecipe issues before it reads the recipe back
CreateStatements(recipeData, id, now) ==
    <<[op |-> "INSERT recipes", row |-> RecipesRow(id, recipeData.f, now, now)]>>
    \o PartInserts(id, recipeData.f.parts.items)
    \o LaborInserts(id, recipeData.f.labor.items)

\* return await getRecipeById(id, env), g being what it gave
CreateReturn(w, g) ==
    [db |-> w.db, value |-> g.value, thrown |-> g.thrown, reads |-> g.n, writes |-> w.n]

\* w: the inserts as they ran, n of them in all
CreateWritten(id, k, w, n) ==
    IF w.thrown
    THEN [db |-> w.db, value |-> NoRecipe, thrown |-> TRUE, reads |-> 0, writes |-> w.n]
    ELSE CreateReturn(w, getRecipeById(id, w.db, After(k, n)))

\* the fault of an atomic create: a failing insert undoes the earlier ones
CreateRun_atomic(db, id, k, sts) ==
    IF Run(db, sts, k).thrown
    THEN [db |-> db, value |-> NoRecipe, thrown |-> TRUE, reads |-> 0,
          writes |-> Run(db, sts, k).n]
    ELSE CreateWritten(id, k, Run(db, sts, k), Len(sts))

CreateRun(db, id, k, sts) == CreateWritten(id, k, Run(db, sts, k), Len(sts))

\* recipeData has passed validateRecipe; id is what generateUUID returned
createRecipe(recipeData, db, id, now, k) ==
    CreateRun(db, id, k, CreateStatements(recipeData, id, now))

\* { ...existingRecipe, ...updateData, id, updated_at: now }, the fields the
\* statements read
Merge(existingRecipe, updateData, field) ==
    IF Has(updateData, field) THEN updateData.f[field] ELSE existingRecipe[field]

\* the fields of updatedRecipe the statements read
Merged(existingRecipe, updateData) ==
    [name |-> Merge(existingRecipe, updateData, "name"),
     weight |-> Merge(existingRecipe, updateData, "weight"),
     dimensions |-> Merge(existingRecipe, updateData, "dimensions"),
     yield_percentage |-> Merge(existingRecipe, updateData, "yield_percentage"),
     waste_factor |-> Merge(existingRecipe, updateData, "waste_factor"),
     unit_of_measure |-> Merge(existingRecipe, updateData, "unit_of_measure"),
     inventory_location |-> Merge(existingRecipe, updateData, "inventory_location"),
     parts |-> Merge(existingRecipe, updateData, "parts"),
     labor |-> Merge(existingRecipe, updateData, "labor")]

\* the fault of appending: the new parts and labor are inserted beside the old
UpdateStatements_append(id, updateData, updatedRecipe, now) ==
    <<[op |-> "UPDATE recipes", id |-> id, row |-> RecipesRow(id, updatedRecipe, now, now)]>>
    \o (IF Has(updateData, "parts") THEN PartInserts(id, updatedRecipe.parts.items) ELSE <<>>)
    \o (IF Has(updateData, "labor") THEN LaborInserts(id, updatedRecipe.labor.items) ELSE <<>>)

\* the fault of trusting the payload's id: the statements bind the id the
\* spread leaves in updatedRecipe when the path's id does not override it
UpdateStatements_payloadId(id, updateData, updatedRecipe, now) ==
    <<[op |-> "UPDATE recipes",
       id |-> IF Has(updateData, "id") THEN updateData.f.id ELSE id,
       row |-> RecipesRow(id, updatedRecipe, now, now)]>>
    \o (IF Has(updateData, "parts")
        THEN <<[op |-> "DELETE recipe_parts", id |-> id]>>
             \o PartInserts(id, updatedRecipe.parts.items)
        ELSE <<>>)
    \o (IF Has(updateData, "labor")
        THEN <<[op |-> "DELETE recipe_labor", id |-> id]>>
             \o LaborInserts(id, updatedRecipe.labor.items)
        ELSE <<>>)

\* the statements updateRecipe issues between its two reads of the recipe
UpdateStatements(id, updateData, updatedRecipe, now) ==
    <<[op |-> "UPDATE recipes", id |-> id, row |-> RecipesRow(id, updatedRecipe, now, now)]>>
    \o (IF Has(updateData, "parts")
        THEN <<[op |-> "DELETE recipe_parts", id |-> id]>>
             \o PartInserts(id, updatedRecipe.parts.items)
        ELSE <<>>)
    \o (IF Has(updateData, "labor")
        THEN <<[op |-> "DELETE recipe_labor", id |-> id]>>
             \o LaborInserts(id, updatedRecipe.labor.items)
        ELSE <<>>)

\* return await getRecipeById(id, env), h being what it gave
UpdateReturn(g, w, h) ==
    [db |-> w.db, value |-> h.value, thrown |-> h.thrown,
     reads |-> g.n + h.n, writes |-> w.n]

\* w: the statements as they ran, n of them in all
UpdateWritten(id, k, g, w, n) ==
    IF w.thrown
    THEN [db |-> w.db, value |-> NoRecipe, thrown |-> TRUE, reads |-> g.n, writes |-> w.n]
    ELSE UpdateReturn(g, w, getRecipeById(id, w.db, After(k, g.n + n)))

UpdateRun(id, db, k, g, sts) ==
    UpdateWritten(id, k, g, Run(db, sts, After(k, g.n)), Len(sts))

\* binding updatedRecipe.dimensions.length raises a TypeError when dimensions is null
UpdateMerged(id, updateData, db, now, k, g, updatedRecipe) ==
    IF updatedRecipe.dimensions.t = "null"
    THEN [db |-> db, value |-> NoRecipe, thrown |-> TRUE, reads |-> g.n, writes |-> 0]
    ELSE UpdateRun(id, db, k, g, UpdateStatements(id, updateData, updatedRecipe, now))

\* the fault of no existence check: spreading a null existingRecipe leaves
\* updatedRecipe without dimensions, and binding dimensions.length throws
UpdateExisting_unchecked(id, updateData, db, now, k, g) ==
    IF g.thrown \/ g.value.t = "null"
    THEN [db |-> db, value |-> NoRecipe, thrown |-> TRUE, reads |-> g.n, writes |-> 0]
    ELSE UpdateMerged(id, updateData, db, now, k, g, Merged(g.value, updateData))

\* g: what getRecipeById gave for existingRecipe
UpdateExisting(id, updateData, db, now, k, g) ==
    IF g.thrown \/ g.value.t = "null"
    THEN [db |-> db, value |-> NoRecipe, thrown |-> g.thrown, reads |-> g.n, writes |-> 0]
    ELSE UpdateMerged(id, updateData, db, now, k, g, Merged(g.value, updateData))

\* updateData has passed validatePartialRecipe
updateRecipe(id, updateData, db, now, k) ==
    UpdateExisting(id, updateData, db, now, k, getRecipeById(id, db, k))

\* result.changes > 0, changes being the recipes rows the statement deleted
DeleteResult(db, w) ==
    [db |-> w.db, value |-> Len(db.recipes) - Len(w.db.recipes) > 0, thrown |-> w.thrown,
     reads |-> 0, writes |-> w.n]

\* the fault of a delete that reports the recipe found and removes nothing
deleteRecipe_keeps(id, db, k) ==
    [db |-> db, value |-> RowsOf(db, id) # <<>>, thrown |-> k = 1, reads |-> 0, writes |-> 1]

deleteRecipe(id, db, k) ==
    DeleteResult(db, Run(db, <<[op |-> "DELETE recipes", id |-> id]>>, k))

-----------------------------------------------------------------------------
(* The fetch handler.  A request carries, beside method, path and body, what *)
(* its environment does while it is handled: the limiter's answer, the store *)
(* statement that fails (failAt), the id generateUUID draws and the order    *)
(* the store returns the recipes rows in.  pathname is kept as               *)
(* pathname.split('/'), a sequence of strings whose first is empty.          *)

E == Str("")
Seg(x) == Str(x)
RootPath == <<E, E>>                                              \* /
RecipesPath == <<E, Seg("api"), Seg("recipes")>>                  \* /api/recipes
SummaryPath == <<E, Seg("api"), Seg("recipes"), Seg("cost"), Seg("summary")>>
IdPath(id) == <<E, Seg("api"), Seg("recipes"), id>>               \* /api/recipes/:id
CostPath(id) == <<E, Seg("api"), Seg("recipes"), id, Seg("cost")>>
OtherApiPath == <<E, Seg("api"), Seg("other")>>                   \* /api/other
OtherPath == <<E, Seg("other")>>                                  \* /other

\* pathname.startsWith('/api/')
StartsWithApi(path) == Len(path) >= 3 /\ path[2] = Seg("api")
\* pathname.startsWith('/api/recipes/')
StartsWithRecipes(path) == Len(path) >= 4 /\ path[2] = Seg("api") /\ path[3] = Seg("recipes")
\* pathname.endsWith('/cost')
EndsWithCost(path) == Len(path) >= 2 /\ path[Len(path)] = Seg("cost")

NoTrace == [limiter |-> FALSE, parsed |-> FALSE, reads |-> 0, writes |-> 0]

\* new Response(body, {status})
Response(status, kind, error, body) ==
    [status |-> status, kind |-> kind, error |-> error, body |-> body]

\* sendJSON(data, status): data is {error: message} or a value
sendJSON(kind, error, body, status) == Response(status, kind, error, body)
sendError(message, status) == sendJSON("error", message, <<>>, status)

\* the catch clause of fetch
Caught == sendError("Something went wrong!", 500)

\* an exception that leaves fetch: the handler answers nothing
Propagated(error) == Response(0, "exception", error, <<>>)

\* the null handleCORS returns for a method other than OPTIONS
NoResponse == Response(0, "null", "", <<>>)

handleCORS(request) ==
    IF request.method = "OPTIONS" THEN Response(200, "empty", "", <<>>) ELSE NoResponse

\* summary.reduce((sum, item) => sum + item[field], 0)
RECURSIVE ReduceField(_, _, _)
ReduceField(items, field, total) ==
    IF items = <<>> THEN total
    ELSE ReduceField(Tail(items), field, JsAdd(total, Head(items)[field]))

\* one element of recipes.map(recipe => ...): cost is calculateRecipeCost(recipe)
SummaryItem(recipe, cost) ==
    [recipe_id |-> recipe.id,
     recipe_name |-> recipe.name,
     total_cost |-> cost.cost_summary.total,
     parts_cost |-> ReduceParts(recipe.parts.items, Whole(0)),
     labor_cost |-> ReduceLabor(recipe.labor.items, Whole(0)),
     unit_of_measure |-> cost.cost_summary.unit_of_measure]

\* the fault of an unguarded average: grandTotal / summary.length for any length
SummaryBody_unguarded(summary, grandTotal) ==
    [recipes |-> summary,
     totals |-> [total_parts_cost |-> ReduceField(summary, "parts_cost", Whole(0)),
                 total_labor_cost |-> ReduceField(summary, "labor_cost", Whole(0)),
                 grand_total |-> grandTotal,
                 average_cost_per_recipe |-> JsDiv(grandTotal, Whole(Len(summary))),
                 total_recipes |-> Len(summary),
                 currency |-> "USD"]]

\* the object sendJSON is given
SummaryBody(summary, grandTotal) ==
    [recipes |-> summary,
     totals |-> [total_parts_cost |-> ReduceField(summary, "parts_cost", Whole(0)),
                 total_labor_cost |-> ReduceField(summary, "labor_cost", Whole(0)),
                 grand_total |-> grandTotal,
                 average_cost_per_recipe |->
                     IF Len(summary) > 0 THEN JsDiv(grandTotal, Whole(Len(summary)))
                     ELSE Whole(0),
                 total_recipes |-> Len(summary),
                 currency |-> "USD"]]

SummaryTotals(summary) == SummaryBody(summary, ReduceField(summary, "total_cost", Whole(0)))

\* the body of GET /api/recipes/cost/summary
FleetSummary(all) ==
    SummaryTotals([i \in DOMAIN all |-> SummaryItem(all[i], calculateRecipeCost(all[i]))])

\* what a route hands back: the store after, the response, and what it did
Out(db, response, parsed, reads, writes) ==
    [db |-> db, resp |-> response,
     trace |-> [limiter |-> FALSE, parsed |-> parsed, reads |-> reads, writes |-> writes]]

\* the response to a read: a is what the repository function gave
ReadAnswer(db, a, kind, body) ==
    IF a.thrown THEN Out(db, Caught, FALSE, a.n, 0)
    ELSE Out(db, sendJSON(kind, "", body, 200), FALSE, a.n, 0)

\* the response to a read of one recipe
ReadOneAnswer(db, g, kind, body) ==
    IF g.thrown THEN Out(db, Caught, FALSE, g.n, 0)
    ELSE IF g.value.t = "null" THEN Out(db, sendError("Recipe not found", 404), FALSE, g.n, 0)
    ELSE Out(db, sendJSON(kind, "", body, 200), FALSE, g.n, 0)

SummaryAnswer(db, a) == ReadAnswer(db, a, "summary", FleetSummary(a.value))
GetSummary(request, db) ==
    SummaryAnswer(db, getAllRecipes(db, request.order, request.failAt))

CostAnswer(db, g) == ReadOneAnswer(db, g, "cost", calculateRecipeCost(g.value))
GetCost(request, db) == CostAnswer(db, getRecipeById(request.path[4], db, request.failAt))

AllAnswer(db, a) == ReadAnswer(db, a, "recipes", a.value)
GetAll(request, db) == AllAnswer(db, getAllRecipes(db, request.order, request.failAt))

OneAnswer(db, g) == ReadOneAnswer(db, g, "recipe", g.value)
GetOne(request, db) == OneAnswer(db, getRecipeById(request.path[4], db, request.failAt))

\* c: what createRecipe gave
PostAnswer(c) ==
    IF c.thrown THEN Out(c.db, Caught, TRUE, c.reads, c.writes)
    ELSE Out(c.db, sendJSON("recipe", "", c.value, 201), TRUE, c.reads, c.writes)

\* the fault of writing first: the recipes row is inserted before the verdict
\* of validation is looked at
PostValidated_writesFirst(request, db, now, validation) ==
    IF validation.thrown THEN Out(db, Caught, TRUE, 0, 0)
    ELSE IF ~validation.valid
    THEN Out(Exec(db, [op |-> "INSERT recipes",
                       row |-> RecipesRow(request.uuid, request.body.f, now, now)]),
             sendError(validation.message, 400), TRUE, 0, 1)
    ELSE PostAnswer(createRecipe(request.body, db, request.uuid, now, request.failAt))

PostValidated(request, db, now, validation) ==
    IF validation.thrown THEN Out(db, Caught, TRUE, 0, 0)
    ELSE IF ~validation.valid THEN Out(db, sendError(validation.message, 400), TRUE, 0, 0)
    ELSE PostAnswer(createRecipe(request.body, db, request.uuid, now, request.failAt))

PostRecipes(request, db, now) ==
    IF request.body.t = "bad" THEN Out(db, Caught, TRUE, 0, 0)    \* request.json() throws
    ELSE PostValidated(request, db, now, validateRecipe(request.body))

\* u: what updateRecipe gave
PutAnswer(u) ==
    IF u.thrown THEN Out(u.db, Caught, TRUE, u.reads, u.writes)
    ELSE IF u.value.t = "null"
    THEN Out(u.db, sendError("Recipe not found", 404), TRUE, u.reads, u.writes)
    ELSE Out(u.db, sendJSON("recipe", "", u.value, 200), TRUE, u.reads, u.writes)

PutValidated(request, db, now, validation) ==
    IF validation.thrown THEN Out(db, Caught, TRUE, 0, 0)
    ELSE IF ~validation.valid THEN Out(db, sendError(validation.message, 400), TRUE, 0, 0)
    ELSE PutAnswer(updateRecipe(request.path[4], request.body, db, now, request.failAt))

PutRecipe(request, db, now) ==
    IF request.body.t = "bad" THEN Out(db, Caught, TRUE, 0, 0)    \* request.json() throws
    ELSE PutValidated(request, db, now, validatePartialRecipe(request.body))

\* d: what deleteRecipe gave
DeleteAnswer(d) ==
    IF d.thrown THEN Out(d.db, Caught, FALSE, 0, d.writes)
    ELSE IF ~d.value THEN Out(d.db, sendError("Recipe not found", 404), FALSE, 0, d.writes)
    ELSE Out(d.db, Response(204, "empty", "", <<>>), FALSE, 0, d.writes)

DeleteRecipe(request, db) == DeleteAnswer(deleteRecipe(request.path[4], db, request.failAt))

\* the fault of a greedy lookup: GET under /api/recipes/ is taken as the
\* lookup of a recipe before the cost routes are tested
Routes_lookupFirst(request, db, now) ==
    LET method == request.method
        path == request.path
    IN  IF method = "GET" /\ path = RootPath
        THEN Out(db, Response(200, "html", "", <<>>), FALSE, 0, 0)
        ELSE IF method = "GET" /\ StartsWithRecipes(path) THEN GetOne(request, db)
        ELSE IF method = "GET" /\ path = SummaryPath THEN GetSummary(request, db)
        ELSE IF method = "GET" /\ StartsWithRecipes(path) /\ EndsWithCost(path)
        THEN GetCost(request, db)
        ELSE IF method = "GET" /\ path = RecipesPath THEN GetAll(request, db)
        ELSE IF method = "POST" /\ path = RecipesPath THEN PostRecipes(request, db, now)
        ELSE IF method = "PUT" /\ StartsWithRecipes(path) /\ Len(path) >= 4
        THEN PutRecipe(request, db, now)
        ELSE IF method = "DELETE" /\ StartsWithRecipes(path) /\ Len(path) >= 4
        THEN DeleteRecipe(request, db)
        ELSE Out(db, sendError("Route not found", 404), FALSE, 0, 0)

\* the try block of fetch: the routes in the order the code tests them
Routes(request, db, now) ==
    LET method == request.method
        path == request.path
    IN  IF method = "GET" /\ path = RootPath
        THEN Out(db, Response(200, "html", "", <<>>), FALSE, 0, 0)
        ELSE IF method = "GET" /\ path = SummaryPath THEN GetSummary(request, db)
        ELSE IF method = "GET" /\ StartsWithRecipes(path) /\ EndsWithCost(path)
        THEN GetCost(request, db)
        ELSE IF method = "GET" /\ path = RecipesPath THEN GetAll(request, db)
        ELSE IF method = "GET" /\ StartsWithRecipes(path) /\ Len(path) = 4
        THEN GetOne(request, db)
        ELSE IF method = "POST" /\ path = RecipesPath THEN PostRecipes(request, db, now)
        ELSE IF method = "PUT" /\ StartsWithRecipes(path) /\ Len(path) >= 4
        THEN PutRecipe(request, db, now)
        ELSE IF method = "DELETE" /\ StartsWithRecipes(path) /\ Len(path) >= 4
        THEN DeleteRecipe(request, db)
        ELSE Out(db, sendError("Route not found", 404), FALSE, 0, 0)

\* the fault of a late limiter: the route has run when the limiter is asked
Limited_late(request, db, limited, r) ==
    IF limited /\ request.limiter = "throws"
    THEN [db |-> db, resp |-> Propagated("limiter failure"),
          trace |-> [NoTrace EXCEPT !.limiter = TRUE]]
    ELSE IF limited /\ request.limiter = "reject"
    THEN [db |-> r.db,
          resp |-> Response(429, "text", "429 Failure - rate limit exceeded for", request.path),
          trace |-> [r.trace EXCEPT !.limiter = TRUE]]
    ELSE [r EXCEPT !.trace.limiter = limited]

\* the rate limiter, then the try block: r is what the try block gives; the
\* text of the 429 response is the message (its dash is an en dash in the
\* source) followed by pathname, kept here as error and body
Limited(request, db, limited, r) ==
    IF limited /\ request.limiter = "throws"
    THEN [db |-> db, resp |-> Propagated("limiter failure"),
          trace |-> [NoTrace EXCEPT !.limiter = TRUE]]
    ELSE IF limited /\ request.limiter = "reject"
    THEN [db |-> db,
          resp |-> Response(429, "text", "429 Failure - rate limit exceeded for", request.path),
          trace |-> [NoTrace EXCEPT !.limiter = TRUE]]
    ELSE [r EXCEPT !.trace.limiter = limited]

\* the fault of a late preflight: OPTIONS is answered inside the limiter
fetch_limitsOptions(request, db, now) ==
    Limited(request, db, StartsWithApi(request.path),
            IF handleCORS(request) # NoResponse
            THEN [db |-> db, resp |-> handleCORS(request), trace |-> NoTrace]
            ELSE Routes(request, db, now))

fetch(request, db, now) ==
    IF handleCORS(request) # NoResponse
    THEN [db |-> db, resp |-> handleCORS(request), trace |-> NoTrace]
    ELSE Limited(request, db, StartsWithApi(request.path), Routes(request, db, now))

-----------------------------------------------------------------------------
(* The requests of the model *)

Base ==
    [name |-> Str("widget"),
     weight |-> Whole(4),
     dimensions |-> Dims(Whole(1), Whole(2), Whole(3), Str("cm")),
     yield_percentage |-> Whole(90),
     waste_factor |-> Num(1, 5),
     unit_of_measure |-> Str("kg"),
     inventory_location |-> Str("A1"),
     parts |-> Arr(<<Part(Str("bolt"), Whole(2), Whole(5))>>),
     labor |-> Arr(<<Labor(Str("weld"), Whole(20), Whole(3))>>)]

With(field, v) == Obj([Base EXCEPT ![field] = v])
Without(field) == Obj([x \in DOMAIN Base \ {field} |-> Base[x]])

PostBodies ==
    {Obj(Base),
     Obj([Base EXCEPT !.waste_factor = Whole(1), !.name = Null]),
     Without("labor"),
     With("dimensions", Dims(Whole(0), Whole(2), Whole(3), Str("cm"))),
     With("dimensions", NullDims),
     With("parts", Arr(<<NullPart>>)),
     With("parts", Arr(<<Part(Str(""), Whole(1), Whole(1))>>)),
     NullBody,
     BadJson}

PutBodies ==
    {Obj([waste_factor |-> Num(1, 2)]),
     Obj([waste_factor |-> Whole(1)]),
     Obj([waste_factor |-> Str("high")]),
     Obj([parts |-> Arr(<<Part(Str("nut"), Whole(3), Num(1, 2))>>)]),
     Obj([parts |-> NullArr]),
     Obj([parts |-> Arr(<<NullPart>>)]),
     Obj([labor |-> Arr(<<>>)]),
     Obj([dimensions |-> NullDims]),
     Obj([dimensions |-> StrDims]),
     Obj([dimensions |-> Dims(Whole(0), Whole(2), Whole(3), Str("cm"))]),
     Obj([dimensions |-> Dims(Whole(5), Whole(5), Whole(5), Str("mm"))]),
     Obj([name |-> Str("gadget"), id |-> Uuid(NumIds + 1), created_at |-> ISO(MaxClock + 1)]),
     Obj([weight |-> Whole(-1)]),
     Obj([yield_percentage |-> Whole(101)]),
     NullBody,
     BadJson}

\* a request that carries no body: request.json() would throw
NoBody == BadJson
\* no id drawn: generateUUID was not called
NoUuid == Uuid(0)

Request(method, path, body, limiter, failAt, uuid, order) ==
    [method |-> method, path |-> path, body |-> body, limiter |-> limiter,
     failAt |-> failAt, uuid |-> uuid, order |-> order]

\* the answers the limiter can give to a request: it is asked about /api/ paths only
LimiterAnswers(path) == IF StartsWithApi(path) THEN {"ok", "reject", "throws"} ELSE {"ok"}

\* the ids generateUUID can draw: a version 4 UUID no stored recipe has
FreshIds == {id \in Ids : RowsOf(DB, id) = <<>>}

\* a store failure is injected at a statement the request issues: the statement
\* failAt fails, so it is the last one of the request
Reaches(request, out) ==
    request.failAt = 0 \/ out.trace.reads + out.trace.writes = request.failAt

NoRequest == Request("NONE", RootPath, NoBody, "ok", 0, NoUuid, <<>>)
EmptyDB == [recipes |-> <<>>, recipe_parts |-> <<>>, recipe_labor |-> <<>>]

\* no request is being handled
Idle == req = NoRequest

\* out is what fetch gave for the request; a request changes the store only
\* while the behaviour may
Handled(request, db, out) ==
    /\ out.db # db => mutations < MaxMutations
    /\ recipes' = out.db.recipes
    /\ recipe_parts' = out.db.recipe_parts
    /\ recipe_labor' = out.db.recipe_labor
    /\ req' = request
    /\ resp' = out.resp
    /\ trace' = out.trace
    /\ pre' = db
    /\ mutations' = IF out.db # db THEN mutations + 1 ELSE mutations
    /\ UNCHANGED <<clock, inflight>>

\* fetch handles one request
Handle(request) ==
    /\ Reaches(request, fetch(request, DB, ISO(clock)))
    /\ Handled(request, DB, fetch(request, DB, ISO(clock)))

-----------------------------------------------------------------------------
(* Actions *)

Options ==
    /\ Idle
    /\ \E path \in {RootPath, RecipesPath} :
          \E limiter \in LimiterAnswers(path) :
              Handle(Request("OPTIONS", path, NoBody, limiter, 0, NoUuid, <<>>))

GetPaths ==
    {RootPath, RecipesPath, SummaryPath, OtherApiPath, OtherPath}
    \cup {IdPath(id) : id \in Ids} \cup {CostPath(id) : id \in Ids}

\* the orders the store can return the rows in, for the routes that list them
OrdersOf(path) == IF path \in {RecipesPath, SummaryPath} THEN Orderings(DB) ELSE {<<>>}

Get ==
    /\ Idle
    /\ \E path \in GetPaths :
          \E limiter \in LimiterAnswers(path), k \in 0..MaxFail, order \in OrdersOf(path) :
              Handle(Request("GET", path, NoBody, limiter, k, NoUuid, order))

\* the statements that may fail while a body is handled: store failures are
\* injected into the requests that carry one of these bodies
FailingBodies ==
    {Obj(Base),
     Obj([waste_factor |-> Num(1, 2)]),
     Obj([parts |-> Arr(<<Part(Str("nut"), Whole(3), Num(1, 2))>>)])}
FailuresOf(body) == IF body \in FailingBodies THEN 0..MaxFail ELSE {0}

\* the bodies sent to a route that reads the body; one body to the others
PostBodiesOf(path, limiter) ==
    IF path = RecipesPath /\ limiter = "ok" THEN PostBodies ELSE {Obj(Base)}

\* generateUUID is called for a body that passes validateRecipe
UuidsOf(path, body, limiter) ==
    IF path = RecipesPath /\ limiter = "ok" /\ body.t = "obj" /\ validateRecipe(body).valid
    THEN FreshIds ELSE {NoUuid}

Post ==
    /\ Idle
    /\ \E path \in {RecipesPath, OtherApiPath} :
          \E limiter \in LimiterAnswers(path) :
              \E body \in PostBodiesOf(path, limiter) :
                  \E k \in FailuresOf(body), uuid \in UuidsOf(path, body, limiter) :
                      Handle(Request("POST", path, body, limiter, k, uuid, <<>>))

PutPaths == {RecipesPath} \cup {IdPath(id) : id \in Ids} \cup {CostPath(id) : id \in Ids}

PutBodiesOf(path, limiter) ==
    IF Len(path) = 4 /\ limiter = "ok" THEN PutBodies
    ELSE {Obj([waste_factor |-> Num(1, 2)])}

Put ==
    /\ Idle
    /\ \E path \in PutPaths :
          \E limiter \in LimiterAnswers(path) :
              \E body \in PutBodiesOf(path, limiter) :
                  \E k \in FailuresOf(body) :
                      Handle(Request("PUT", path, body, limiter, k, NoUuid, <<>>))

Delete ==
    /\ Idle
    /\ \E path \in PutPaths :
          \E limiter \in LimiterAnswers(path), k \in 0..MaxFail :
              Handle(Request("DELETE", path, NoBody, limiter, k, NoUuid, <<>>))

\* the response is sent: the handler keeps nothing from one request to the next
Done ==
    /\ ~Idle
    /\ req' = NoRequest
    /\ resp' = NoResponse
    /\ pre' = EmptyDB
    /\ trace' = NoTrace
    /\ UNCHANGED <<recipes, recipe_parts, recipe_labor, clock, mutations, inflight>>

\* time passes between requests
Tick ==
    /\ Idle
    /\ clock < MaxClock
    /\ clock' = clock + 1
    /\ UNCHANGED <<recipes, recipe_parts, recipe_labor, req, resp, pre, trace, mutations,
                   inflight>>

Init ==
    /\ recipes = <<>>
    /\ recipe_parts = <<>>
    /\ recipe_labor = <<>>
    /\ clock = 0
    /\ req = NoRequest
    /\ resp = NoResponse
    /\ pre = EmptyDB
    /\ trace = NoTrace
    /\ mutations = 0
    /\ inflight = <<>>

Next == Options \/ Get \/ Post \/ Put \/ Delete \/ Done \/ Tick

Spec == Init /\ [][Next]_vars

-----------------------------------------------------------------------------
(* The cost specification: the cost routes over the stores that hold one     *)
(* recipe with any parts, labor and waste factor of the sets below, and up   *)
(* to MaxStored - 1 more recipes.  Each store is built with the statements   *)
(* of createRecipe, so it is a store POST /api/recipes leaves.               *)

CostIds == {Uuid(i) : i \in 1..MaxStored}

Quantities == {Whole(0), Whole(2), Num(3, 2)}
UnitCosts == {Whole(5), Num(1, 2)}
CostParts == {Part(Str("bolt"), q, c) : q \in Quantities, c \in UnitCosts}

RECURSIVE ListsOf(_, _)
ListsOf(S, n) ==
    IF n = 0 THEN {<<>>}
    ELSE ListsOf(S, n - 1) \cup {Append(l, x) : l \in {m \in ListsOf(S, n - 1) : Len(m) = n - 1},
                                                x \in S}

CostLabor ==
    {<<>>,
     <<Labor(Str("weld"), Whole(20), Whole(3))>>,
     <<Labor(Str("weld"), Whole(20), Whole(3)), Labor(Str("paint"), Num(25, 2), Whole(4))>>}

WasteFactors == {Whole(0), Num(1, 5), Num(1, 2), Whole(1), Num(3, 2), Null}

CostBodies ==
    {Obj([Base EXCEPT !.parts = Arr(ps), !.labor = Arr(ls), !.waste_factor = wf]) :
        ps \in ListsOf(CostParts, MaxItems), ls \in CostLabor, wf \in WasteFactors}

\* the bodies of the recipes stored beside the first
PlainBodies == {Obj(Base), Obj([Base EXCEPT !.waste_factor = Whole(1), !.name = Null])}

\* the store after POST /api/recipes of each body of the list, at instant 0
RECURSIVE StoreOf(_, _)
StoreOf(bodies, i) ==
    IF i = 0 THEN EmptyDB
    ELSE LET sts == CreateStatements(bodies[i], Uuid(i), ISO(0))
         IN  ExecAll(StoreOf(bodies, i - 1), sts, Len(sts))

CostStores ==
    {EmptyDB} \cup
    {StoreOf(<<first>> \o rest, 1 + Len(rest)) :
        first \in CostBodies, rest \in ListsOf(PlainBodies, MaxStored - 1)}

InitCost ==
    /\ \E db \in CostStores :
          /\ recipes = db.recipes
          /\ recipe_parts = db.recipe_parts
          /\ recipe_labor = db.recipe_labor
    /\ clock = 0
    /\ req = NoRequest
    /\ resp = NoResponse
    /\ pre = EmptyDB
    /\ trace = NoTrace
    /\ mutations = 0
    /\ inflight = <<>>

\* GET /api/recipes/:id/cost
GetRecipeCost ==
    /\ Idle
    /\ \E id \in CostIds :
          Handle(Request("GET", CostPath(id), NoBody, "ok", 0, NoUuid, <<>>))

\* GET /api/recipes/cost/summary
GetCostSummary ==
    /\ Idle
    /\ \E order \in Orderings(DB) :
          Handle(Request("GET", SummaryPath, NoBody, "ok", 0, NoUuid, order))

NextCost == GetRecipeCost \/ GetCostSummary \/ Done

SpecCost == InitCost /\ [][NextCost]_vars

-----------------------------------------------------------------------------
(* The updates specification: PUT /api/recipes/:id requests that run at once *)
(* on a store of MaxStored recipes.  updateRecipe awaits every store         *)
(* statement, so the statements of requests in flight interleave; each       *)
(* statement is atomic.  inflight[w] is the update of writer w: the recipe   *)
(* it names, its payload and the statements it has still to issue.  pre      *)
(* stays the store the updates started from.                                 *)

InitUpdates ==
    /\ recipes = StoreOf([i \in 1..MaxStored |-> Obj(Base)], MaxStored).recipes
    /\ recipe_parts = StoreOf([i \in 1..MaxStored |-> Obj(Base)], MaxStored).recipe_parts
    /\ recipe_labor = StoreOf([i \in 1..MaxStored |-> Obj(Base)], MaxStored).recipe_labor
    /\ pre = StoreOf([i \in 1..MaxStored |-> Obj(Base)], MaxStored)
    /\ clock = MaxClock
    /\ req = NoRequest
    /\ resp = NoResponse
    /\ trace = NoTrace
    /\ mutations = 0
    /\ inflight = [w \in 1..NumWriters |->
                      [pc |-> "idle", id |-> NoUuid, body |-> NoBody, sts |-> <<>>]]

\* the request passes validatePartialRecipe and updateRecipe reads the
\* existing recipe: updatedRecipe, and with it every statement, is fixed here
Begin(w) ==
    /\ inflight[w].pc = "idle"
    /\ \E id \in CostIds :
          \E body \in {Obj([name |-> Str("gadget"), id |-> Uuid(NumIds + 1),
                            created_at |-> ISO(MaxClock + 1)]),
                       Obj([parts |-> Arr(<<Part(Str("nut"), Whole(3), Num(1, 2))>>)]),
                       Obj([parts |-> Arr(<<Part(Str("pin"), Whole(1), Whole(1)),
                                            Part(Str("cap"), Whole(2), Whole(1))>>)])} :
              /\ validatePartialRecipe(body).valid
              /\ getRecipeById(id, DB, 0).value.t = "obj"
              /\ inflight' =
                    [inflight EXCEPT ![w] =
                        [pc |-> "writing", id |-> id, body |-> body,
                         sts |-> UpdateStatements(id, body,
                                                  Merged(getRecipeById(id, DB, 0).value, body),
                                                  ISO(clock))]]
    /\ UNCHANGED <<recipes, recipe_parts, recipe_labor, clock, req, resp, pre, trace,
                   mutations>>

\* the next statement of the update runs
Step(w) ==
    /\ inflight[w].pc = "writing"
    /\ inflight[w].sts # <<>>
    /\ recipes' = Exec(DB, Head(inflight[w].sts)).recipes
    /\ recipe_parts' = Exec(DB, Head(inflight[w].sts)).recipe_parts
    /\ recipe_labor' = Exec(DB, Head(inflight[w].sts)).recipe_labor
    /\ inflight' = [inflight EXCEPT ![w].sts = Tail(@)]
    /\ UNCHANGED <<clock, req, resp, pre, trace, mutations>>

\* updateRecipe reads the recipe back and the request is answered 200
Finish(w) ==
    /\ inflight[w].pc = "writing"
    /\ inflight[w].sts = <<>>
    /\ inflight' = [inflight EXCEPT ![w].pc = "done"]
    /\ UNCHANGED <<recipes, recipe_parts, recipe_labor, clock, req, resp, pre, trace,
                   mutations>>

NextUpdates == \E w \in 1..NumWriters : Begin(w) \/ Step(w) \/ Finish(w)

SpecUpdates == InitUpdates /\ [][NextUpdates]_vars

-----------------------------------------------------------------------------
(* Properties.  req is the request just handled, resp its response, pre the  *)
(* store before it and DB the store after it.                                *)

\* the rows of each table that belong to recipe id
RecipeRows(db, id) == SelectSeq(db.recipes, LAMBDA row : row.id = id)
PartRows(db, id) == SelectSeq(db.recipe_parts, LAMBDA row : row.recipe_id = id)
LaborRows(db, id) == SelectSeq(db.recipe_labor, LAMBDA row : row.recipe_id = id)

\* a request to /api/recipes/:id or below it, and the id it names
NamesRecipe == Len(req.path) >= 4 /\ req.path[2] = Seg("api") /\ req.path[3] = Seg("recipes")
Named == req.path[4]

\* C1: every recipe held in the store has a numeric waste_factor with
\* 0 <= waste_factor < 1.
C1_WasteFactorInRange ==
    \A i \in DOMAIN recipes :
        /\ recipes[i].waste_factor.t = "num"
        /\ 0 <= recipes[i].waste_factor.n
        /\ recipes[i].waste_factor.n < recipes[i].waste_factor.d

\* a * b in quarters, for rationals whose denominators multiply to 1, 2 or 4
Quarters(a, b) == (a.n * b.n * 4) \div (a.d * b.d)

RECURSIVE PartQuarters(_)
PartQuarters(rows) ==
    IF rows = <<>> THEN 0
    ELSE Quarters(Head(rows).quantity, Head(rows).cost_per_unit) + PartQuarters(Tail(rows))

RECURSIVE LaborQuarters(_)
LaborQuarters(rows) ==
    IF rows = <<>> THEN 0
    ELSE Quarters(Head(rows).hours_needed, Head(rows).cost_per_hour)
         + LaborQuarters(Tail(rows))

\* the rational v is q quarters
IsQuarters(v, q) == v.t = "num" /\ v.n * 4 = q * v.d

\* the waste factor the cost is computed with: 0 for a stored null
StoredWaste(row) == IF row.waste_factor.t = "num" THEN row.waste_factor ELSE Whole(0)

CostAnswered ==
    /\ req.method = "GET"
    /\ NamesRecipe
    /\ Len(req.path) = 5
    /\ req.path[5] = Seg("cost")
    /\ resp.status = 200

\* subtotal, total and waste_amount for waste factor wf and a subtotal of q quarters
CostHolds(cs, wf, q) ==
    /\ IsQuarters(cs.subtotal, q)
    /\ IF wf.n # wf.d
       THEN /\ cs.total.t = "num"
            /\ cs.total.n * (wf.d - wf.n) * cs.subtotal.d = cs.subtotal.n * wf.d * cs.total.d
            /\ cs.waste_amount.t = "num"
            /\ cs.waste_amount.n * cs.total.d * cs.subtotal.d
                  + cs.subtotal.n * cs.waste_amount.d * cs.total.d
               = cs.total.n * cs.waste_amount.d * cs.subtotal.d
       ELSE /\ cs.total = IF q = 0 THEN NaN ELSE Infinity(1)
            /\ cs.waste_amount = cs.total

\* C2: the cost of a recipe has subtotal = sum(quantity * cost_per_unit) +
\* sum(hours_needed * cost_per_hour), total = subtotal / (1 - waste_factor) and
\* waste_amount = total - subtotal; a waste_factor of 1 divides by zero, which
\* gives Infinity (NaN for a subtotal of 0), not a finite total.
C2_CostFormula ==
    CostAnswered =>
        CostHolds(resp.body.cost_summary,
                  StoredWaste(RecipeRows(DB, Named)[1]),
                  PartQuarters(PartRows(DB, Named)) + LaborQuarters(LaborRows(DB, Named)))

\* parts 2 x 5, labor 3 h x 20, waste_factor 0.2: subtotal 70, total 87.5,
\* waste_amount 17.5
C2_Example ==
    /\ CostAnswered
    /\ PartRows(DB, Named) = <<[recipe_id |-> Named, name |-> Str("bolt"),
                                quantity |-> Whole(2), cost_per_unit |-> Whole(5)]>>
    /\ LaborRows(DB, Named) = <<[recipe_id |-> Named, type |-> Str("weld"),
                                 cost_per_hour |-> Whole(20), hours_needed |-> Whole(3)]>>
    /\ RecipeRows(DB, Named)[1].waste_factor = Num(1, 5)
    /\ resp.body.cost_summary.subtotal = Whole(70)
    /\ resp.body.cost_summary.total = Num(175, 2)
    /\ resp.body.cost_summary.waste_amount = Num(35, 2)

Created == req.method = "POST" /\ resp.status = 201

\* C3: the recipe GET /api/recipes/:id returns after a POST answered 201 has
\* every input field equal to the payload's, id, created_at and updated_at
\* populated, and created_at equal to updated_at.
C3_RoundTrip ==
    Created =>
        LET got == getRecipeById(resp.body.id, DB, 0).value
            sent == req.body.f
        IN  /\ got.t = "obj"
            /\ \A field \in {"name", "weight", "dimensions", "yield_percentage",
                             "waste_factor", "unit_of_measure", "inventory_location",
                             "parts", "labor"} : got[field] = sent[field]
            /\ got.id.t = "str" /\ got.id # E
            /\ got.created_at.t = "str" /\ got.created_at # E
            /\ got.created_at = got.updated_at

Updated == req.method = "PUT" /\ NamesRecipe /\ resp.status = 200

\* C4: an update answered 200 whose payload has only waste_factor leaves the
\* recipe's part and labor rows as they were; one whose payload has parts
\* leaves exactly the supplied parts as the recipe's part rows, in order, and,
\* when the payload has no labor, the labor rows as they were.
C4_UpdateFrame ==
    Updated =>
        /\ DOMAIN req.body.f = {"waste_factor"} =>
              /\ PartRows(DB, Named) = PartRows(pre, Named)
              /\ LaborRows(DB, Named) = LaborRows(pre, Named)
        /\ "parts" \in DOMAIN req.body.f =>
              /\ PartRows(DB, Named) =
                    [i \in DOMAIN req.body.f.parts.items |->
                        [recipe_id |-> Named,
                         name |-> req.body.f.parts.items[i].name,
                         quantity |-> req.body.f.parts.items[i].quantity,
                         cost_per_unit |-> req.body.f.parts.items[i].cost_per_unit]]
              /\ "labor" \notin DOMAIN req.body.f =>
                    LaborRows(DB, Named) = LaborRows(pre, Named)

\* an update of parts on a recipe that had other parts, its labor rows kept
C4_PartsReplaced ==
    /\ Updated
    /\ "parts" \in DOMAIN req.body.f
    /\ PartRows(pre, Named) # <<>>
    /\ PartRows(pre, Named) # PartRows(DB, Named)
    /\ LaborRows(DB, Named) # <<>>

Deleted == req.method = "DELETE" /\ NamesRecipe /\ resp.status = 204

\* C5: after a delete answered 204 the store has no recipes row, no
\* recipe_parts row and no recipe_labor row of the recipe.
C5_DeleteCascades ==
    Deleted =>
        /\ RecipeRows(DB, Named) = <<>>
        /\ PartRows(DB, Named) = <<>>
        /\ LaborRows(DB, Named) = <<>>

\* a delete of a recipe that had part and labor rows
C5_DeletedWithRows ==
    /\ Deleted
    /\ RecipeRows(pre, Named) # <<>>
    /\ PartRows(pre, Named) # <<>>
    /\ LaborRows(pre, Named) # <<>>

Rejected == req.method \in {"POST", "PUT"} /\ resp.status = 400

\* C6: a POST or PUT answered 400 executed no write statement and left the
\* store as it was.
C6_RejectedBeforeWrite == Rejected => (trace.writes = 0 /\ DB = pre)

\* an update rejected while the store holds the recipe it names
C6_RejectedUpdate ==
    /\ Rejected
    /\ req.method = "PUT"
    /\ RecipeRows(pre, Named) # <<>>
    /\ trace.parsed

\* an update or a delete of an id the store does not hold, which the limiter
\* lets through, whose statements all run and whose payload passes validation
AimsAtNothing ==
    /\ req.method \in {"PUT", "DELETE"}
    /\ NamesRecipe
    /\ RecipeRows(pre, Named) = <<>>
    /\ req.limiter = "ok"
    /\ req.failAt = 0
    /\ req.method = "PUT" => validatePartialRecipe(req.body).valid

\* C7: an update or a delete of an id that is not in the store is answered
\* 404 'Recipe not found', never 500 and never an exception, and leaves the
\* store as it was.
C7_NotFound ==
    AimsAtNothing =>
        /\ resp.status = 404
        /\ resp.kind = "error"
        /\ resp.error = "Recipe not found"
        /\ DB = pre

\* an update with a valid payload of an id that is not in the store
C7_UpdateOfNothing == AimsAtNothing /\ req.method = "PUT" /\ resp.status = 404

SummaryAnswered == req.method = "GET" /\ req.path = SummaryPath /\ resp.status = 200

\* the sum of the field of the items, from the last to the first
RECURSIVE SumOfField(_, _)
SumOfField(items, field) ==
    IF items = <<>> THEN Whole(0)
    ELSE NumAdd(SumOfField(Tail(items), field), Head(items)[field])

\* avg is total / n
IsAverage(avg, total, n) ==
    IF n = 0 THEN avg = Whole(0)
    ELSE IF total.t = "num"
    THEN avg.t = "num" /\ avg.n * n * total.d = total.n * avg.d
    ELSE avg = total

\* C8: the fleet summary lists every stored recipe once with the total its
\* cost breakdown has; total_recipes is their number, grand_total the sum of
\* their totals, total_parts_cost and total_labor_cost the sums over all part
\* and labor rows, and average_cost_per_recipe grand_total / total_recipes, or
\* 0 when there is no recipe.
C8_FleetSummary ==
    SummaryAnswered =>
        LET items == resp.body.recipes
            totals == resp.body.totals
        IN  /\ totals.total_recipes = Len(recipes)
            /\ Len(items) = Len(recipes)
            /\ \A i \in DOMAIN recipes : \E j \in DOMAIN items : items[j].recipe_id = recipes[i].id
            /\ \A j \in DOMAIN items :
                  CostHolds([subtotal |-> NumAdd(items[j].parts_cost, items[j].labor_cost),
                             total |-> items[j].total_cost,
                             waste_amount |-> NumAdd(items[j].total_cost,
                                                     Neg(NumAdd(items[j].parts_cost,
                                                                items[j].labor_cost)))],
                            StoredWaste(RecipeRows(DB, items[j].recipe_id)[1]),
                            PartQuarters(PartRows(DB, items[j].recipe_id))
                            + LaborQuarters(LaborRows(DB, items[j].recipe_id)))
            /\ totals.grand_total = SumOfField(items, "total_cost")
            /\ IsQuarters(totals.total_parts_cost, PartQuarters(recipe_parts))
            /\ IsQuarters(totals.total_labor_cost, LaborQuarters(recipe_labor))
            /\ IsAverage(totals.average_cost_per_recipe, totals.grand_total, Len(recipes))

\* a summary of two recipes or more with a finite, nonzero grand total
C8_SummaryOfSeveral ==
    /\ SummaryAnswered
    /\ Len(recipes) >= 2
    /\ resp.body.totals.grand_total.t = "num"
    /\ resp.body.totals.grand_total.n > 0
    /\ resp.body.recipes[1].total_cost # resp.body.recipes[2].total_cost

\* C9: an update payload that has dimensions passes validatePartialRecipe
\* exactly when a full payload with the same dimensions passes validateRecipe.
C9_SameDimensionsRule ==
    (/\ req.method = "PUT"
     /\ req.body.t = "obj"
     /\ DOMAIN req.body.f = {"dimensions"}) =>
        (validatePartialRecipe(req.body).valid
            <=> validateRecipe(With("dimensions", req.body.f.dimensions)).valid)

\* a failure was raised while the request was handled: the limiter threw, a
\* store statement failed, or the body of a POST or PUT that was read did not
\* parse or made validation throw
FailureRaised ==
    /\ req.method \notin {"NONE", "OPTIONS"}
    /\ \/ (StartsWithApi(req.path) /\ req.limiter = "throws")
       \/ req.failAt > 0
       \/ (trace.parsed /\ req.body.t # "obj")

\* C10: a failure raised while a non-OPTIONS request is handled is answered
\* 500 {error: 'Something went wrong!'}; no exception leaves the handler.
C10_FailuresAnswered500 ==
    FailureRaised =>
        /\ resp.status = 500
        /\ resp.kind = "error"
        /\ resp.error = "Something went wrong!"

\* the request is one of the eight routes of the route table
InRouteTable ==
    \/ req.method = "GET" /\ req.path \in {RootPath, RecipesPath, SummaryPath}
    \/ req.method = "GET" /\ NamesRecipe /\ Len(req.path) = 4
    \/ req.method = "GET" /\ NamesRecipe /\ Len(req.path) = 5 /\ req.path[5] = Seg("cost")
    \/ req.method = "POST" /\ req.path = RecipesPath
    \/ req.method \in {"PUT", "DELETE"} /\ NamesRecipe /\ Len(req.path) = 4

\* the limiter, if asked, let the request through
PassedLimiter == StartsWithApi(req.path) => req.limiter = "ok"

\* C11: a request that is none of the eight routes is answered 404
\* {error: 'Route not found'} and issues no store statement; PUT or DELETE on
\* /api/recipes/:id/cost leaves the store as it was.
C11_UnroutedNotFound ==
    (req.method \notin {"NONE", "OPTIONS"} /\ ~InRouteTable /\ PassedLimiter) =>
        /\ resp.status = 404
        /\ resp.kind = "error"
        /\ resp.error = "Route not found"
        /\ trace.reads = 0
        /\ trace.writes = 0
        /\ DB = pre

\* what the validation function of the route returned for the body
Verdict ==
    IF req.method = "POST" THEN validateRecipe(req.body) ELSE validatePartialRecipe(req.body)

\* C12: validateRecipe and validatePartialRecipe raise for no JSON payload:
\* a POST or PUT whose body parsed gets a verdict, and a body that is not
\* valid is answered 400.
C12_ValidationNeverRaises ==
    (req.method \in {"POST", "PUT"} /\ trace.parsed /\ req.body.t # "bad") =>
        /\ ~Verdict.thrown
        /\ ~Verdict.valid => resp.status = 400

\* the recipes some update in flight or completed names
Targeted == {inflight[w].id : w \in {v \in DOMAIN inflight : inflight[v].pc # "idle"}}

\* C13: whatever PUT requests have run, each stored recipe has the id and the
\* created_at it had before them, and a recipe no PUT names has its row, its
\* part rows and its labor rows as they were.
C13_IdAndCreationKept ==
    /\ Len(recipes) = Len(pre.recipes)
    /\ \A i \in DOMAIN recipes :
          /\ recipes[i].id = pre.recipes[i].id
          /\ recipes[i].created_at = pre.recipes[i].created_at
          /\ recipes[i].id \notin Targeted =>
                /\ recipes[i] = pre.recipes[i]
                /\ PartRows(DB, recipes[i].id) = PartRows(pre, recipes[i].id)
                /\ LaborRows(DB, recipes[i].id) = LaborRows(pre, recipes[i].id)

\* an update that carried an id and a created_at of its own has completed
\* and renamed the recipe it names, beside a recipe no update names
C13_UpdatedWithOwnId ==
    \E w \in DOMAIN inflight :
        /\ inflight[w].pc = "done"
        /\ "id" \in DOMAIN inflight[w].body.f
        /\ "created_at" \in DOMAIN inflight[w].body.f
        /\ inflight[w].body.f.id # inflight[w].id
        /\ RecipeRows(DB, inflight[w].id)[1].name = Str("gadget")
        /\ RecipeRows(DB, inflight[w].id)[1].updated_at # RecipeRows(pre, inflight[w].id)[1].updated_at
        /\ \E i \in DOMAIN recipes : recipes[i].id \notin Targeted

\* the part rows the payload's parts make for recipe id
SuppliedPartRows(id, body) ==
    [i \in DOMAIN body.f.parts.items |->
        [recipe_id |-> id,
         name |-> body.f.parts.items[i].name,
         quantity |-> body.f.parts.items[i].quantity,
         cost_per_unit |-> body.f.parts.items[i].cost_per_unit]]

\* C18: once two PUT requests that both supply parts for one recipe have
\* completed, the recipe's part rows are exactly the list one of them supplied.
C18_OneListWins ==
    \A v, w \in DOMAIN inflight :
        (/\ v # w
         /\ inflight[v].pc = "done" /\ inflight[w].pc = "done"
         /\ inflight[v].id = inflight[w].id
         /\ "parts" \in DOMAIN inflight[v].body.f
         /\ "parts" \in DOMAIN inflight[w].body.f) =>
            PartRows(DB, inflight[v].id) \in
                {SuppliedPartRows(inflight[v].id, inflight[v].body),
                 SuppliedPartRows(inflight[w].id, inflight[w].body)}

\* C14: a non-OPTIONS request to a path under /api/ has the limiter asked;
\* when the limiter rejects, the answer is 429 with the text '429 Failure -
\* rate limit exceeded for <path>' and the request reads no body and issues no
\* store statement.
C14_LimiterFirst ==
    (req.method \notin {"NONE", "OPTIONS"} /\ StartsWithApi(req.path)) =>
        /\ trace.limiter
        /\ req.limiter = "reject" =>
              /\ resp.status = 429
              /\ resp.kind = "text"
              /\ resp.error = "429 Failure - rate limit exceeded for"
              /\ resp.body = req.path
              /\ ~trace.parsed
              /\ trace.reads = 0
              /\ trace.writes = 0
              /\ DB = pre

\* an update of a stored recipe that the limiter rejects
C14_RejectedUpdate ==
    /\ req.method = "PUT"
    /\ NamesRecipe
    /\ Len(req.path) = 4
    /\ req.limiter = "reject"
    /\ RecipeRows(pre, Named) # <<>>
    /\ resp.status = 429

\* C15: an OPTIONS request to any path is answered 200 with no body; the
\* limiter is not asked, whatever it would answer, and no store statement is
\* issued.
C15_OptionsAnswered ==
    req.method = "OPTIONS" =>
        /\ resp.status = 200
        /\ resp.kind = "empty"
        /\ resp.body = <<>>
        /\ ~trace.limiter
        /\ ~trace.parsed
        /\ trace.reads = 0
        /\ trace.writes = 0
        /\ DB = pre

\* an OPTIONS request to a path the limiter would reject, on a store with a
\* recipe
C15_OptionsOnLimitedPath ==
    /\ req.method = "OPTIONS"
    /\ StartsWithApi(req.path)
    /\ req.limiter = "reject"
    /\ resp.status = 200
    /\ pre.recipes # <<>>

\* a GET the limiter lets through and whose store statements all run
GetServed == req.method = "GET" /\ req.limiter = "ok" /\ req.failAt = 0

\* C16: GET /api/recipes/cost/summary is answered with the fleet summary,
\* never as the lookup of a recipe; GET /api/recipes/:id/cost is answered
\* with the cost breakdown of recipe :id when the store holds it and with 404
\* 'Recipe not found' when it does not, never with the recipe itself.
C16_GetPriority ==
    GetServed =>
        /\ req.path = SummaryPath =>
              /\ resp.status = 200
              /\ resp.kind = "summary"
              /\ resp.body.totals.total_recipes = Len(recipes)
        /\ (NamesRecipe /\ Len(req.path) = 5 /\ req.path[5] = Seg("cost")) =>
              IF RecipeRows(pre, Named) # <<>>
              THEN /\ resp.status = 200
                   /\ resp.kind = "cost"
                   /\ resp.body.recipe_id = Named
                   /\ "cost_summary" \in DOMAIN resp.body
              ELSE /\ resp.status = 404
                   /\ resp.kind = "error"
                   /\ resp.error = "Recipe not found"

\* the cost breakdown of a stored recipe
C16_CostOfStored ==
    /\ GetServed
    /\ NamesRecipe
    /\ Len(req.path) = 5
    /\ req.path[5] = Seg("cost")
    /\ RecipeRows(pre, Named) # <<>>
    /\ resp.kind = "cost"

\* the labor rows the payload's labor makes for recipe id
SuppliedLaborRows(id, body) ==
    [i \in DOMAIN body.f.labor.items |->
        [recipe_id |-> id,
         type |-> body.f.labor.items[i].type,
         cost_per_hour |-> body.f.labor.items[i].cost_per_hour,
         hours_needed |-> body.f.labor.items[i].hours_needed]]

\* a create whose store statement failAt fails after the recipes row is in:
\* the insert of a part or of a labor item
CreateInterrupted ==
    /\ req.method = "POST"
    /\ req.path = RecipesPath
    /\ req.limiter = "ok"
    /\ req.body.t = "obj"
    /\ validateRecipe(req.body).valid
    /\ req.failAt >= 2
    /\ req.failAt <= 1 + Len(req.body.f.parts.items) + Len(req.body.f.labor.items)

\* the first n elements of rows, all of them when n is larger
FirstRows(rows, n) == SubSeq(rows, 1, IF n < 0 THEN 0 ELSE IF n > Len(rows) THEN Len(rows) ELSE n)

\* C17: a create whose insert of a part or labor item fails is answered 500
\* and leaves the recipes row, retrievable by id, with the part and labor
\* rows inserted before the failure and no other.
C17_CreateNotAtomic ==
    CreateInterrupted =>
        /\ resp.status = 500
        /\ resp.error = "Something went wrong!"
        /\ RecipeRows(pre, req.uuid) = <<>>
        /\ Len(RecipeRows(DB, req.uuid)) = 1
        /\ getRecipeById(req.uuid, DB, 0).value.t = "obj"
        /\ PartRows(DB, req.uuid) =
              FirstRows(SuppliedPartRows(req.uuid, req.body), req.failAt - 2)
        /\ LaborRows(DB, req.uuid) =
              FirstRows(SuppliedLaborRows(req.uuid, req.body),
                        req.failAt - 2 - Len(req.body.f.parts.items))
        /\ getRecipeById(req.uuid, DB, 0).value.parts.items
              = FirstRows(req.body.f.parts.items, req.failAt - 2)

\* a create that failed at the insert of its labor item, its part being in
C17_PartWithoutLabor ==
    /\ CreateInterrupted
    /\ resp.status = 500
    /\ PartRows(DB, req.uuid) # <<>>
    /\ LaborRows(DB, req.uuid) = <<>>
    /\ req.body.f.labor.items # <<>>

=============================================================================
